---- MODULE Spec2Model ----
(***************************************************************************)
(* A model of the texfmt lexer (src/src/lexer.rs).                         *)
(*                                                                         *)
(* A string is a sequence of characters, a character a one-character       *)
(* string.  A parser takes the input that is left and returns either       *)
(* Ok(rest, out) or Err, as a nom parser does; the parsers of the lexer    *)
(* are operators, written as the combinators of lexer.rs compute them.     *)
(* The driver lex_tokens = many0(lex_token) is the state machine: it holds *)
(* the input that is left (i) and the tokens pushed so far (acc).          *)
(***************************************************************************)
EXTENDS Integers, Sequences, FiniteSets

\* Longest input string the model enumerates.
MaxLen == 4

BS == "\\"
LF == "\n"
CR == "\r"
TAB == "\t"
SP == " "

\* The characters inputs are drawn from: the characters the rules of the
\* lexer name ('}' is left to the inputs of the tests: no rule tells it
\* from '{' but lex_delimiter, which has a token for each), a letter, a
\* character that is escapable and nothing else ("&"), and an ordinary
\* character that is no letter ("1").
Alphabet ==
    {BS, "%", "{", "[", "]", "$", SP, TAB, LF, CR, "a", "&", "1"}

\* char::is_alpha: the ASCII letters.
Letters ==
    {"a", "b", "c", "d", "e", "f", "g", "h", "i", "j", "k", "l", "m",
     "n", "o", "p", "q", "r", "s", "t", "u", "v", "w", "x", "y", "z",
     "A", "B", "C", "D", "E", "F", "G", "H", "I", "J", "K", "L", "M",
     "N", "O", "P", "Q", "R", "S", "T", "U", "V", "W", "X", "Y", "Z"}

\* The argument of none_of in lex_text.
TextStop == {BS, "%", "{", "}", "$", SP, TAB, LF}

\* The argument of one_of in lex_text; "," ";" "!" are not in Alphabet.
Escapable == {"%", "{", "}", "$", "&", ",", ";", "!", SP}

\* Inputs of the tests of lexer.rs.
T_cmd_arg == <<BS, "c", "m", "d", "{", "a", "r", "g", "}">>
T_endline_cmd == <<BS, BS, "c", "m", "d">>
T_tdisplay == <<"$", "$", "1", "+", "2", "$", "$">>
T_comment_nl ==
    <<"%", SP, "h", "e", "l", "l", "o", SP, "w", "o", "r", "l", "d", LF>>
T_escapes == <<"(", BS, ",", BS, "&", BS, ";", ")", BS, "[">>
T_space_nl == <<SP, TAB, LF, SP, BS, "e", "n", "d">>
T_bdisplay == <<BS, "[", "1", "+", "2", BS, "]">>

TestInputs ==
    {T_cmd_arg, T_endline_cmd, T_tdisplay, T_comment_nl, T_escapes,
     T_space_nl, T_bdisplay}

\* Every string over Alphabet of at most MaxLen characters, and the inputs
\* of the tests.
Inputs == TestInputs \cup UNION {[1..n -> Alphabet] : n \in 0..MaxLen}

Take(s, n) == SubSeq(s, 1, n)
Drop(s, n) == SubSeq(s, n + 1, Len(s))

StartsWith(s, t) == Len(s) >= Len(t) /\ Take(s, Len(t)) = t

----------------------------------------------------------------------------
(* Parser results and tokens *)

\* IResult: Ok((rest, out)), or Err(Error { input, code }) where input is
\* the place of the failure; rest holds the one or the other.
Ok(rest, out) == [ok |-> TRUE, rest |-> rest, out |-> out, code |-> "-"]
Err(s, code) == [ok |-> FALSE, rest |-> s, out |-> <<>>, code |-> code]

\* Token<S>: the variant and, for Command, Comment, Text and Whitespace,
\* the borrowed slice; the other variants carry no slice (<<>> here).
Tok(kind, payload) == [kind |-> kind, payload |-> payload]

PayloadKinds == {"Command", "Comment", "Text", "Whitespace"}

----------------------------------------------------------------------------
(* nom combinators, on &str, complete *)

\* char(c): the character c.
char(c, s) ==
    IF s # <<>> /\ Head(s) = c THEN Ok(Tail(s), c) ELSE Err(s, "Char")

\* tag(t): the literal t.
tag(t, s) ==
    IF StartsWith(s, t) THEN Ok(Drop(s, Len(t)), t) ELSE Err(s, "Tag")

\* Length of the longest prefix of s all of whose characters are in S.
RECURSIVE PrefixLen(_, _)
PrefixLen(s, S) ==
    IF s = <<>> \/ Head(s) \notin S THEN 0 ELSE 1 + PrefixLen(Tail(s), S)

\* Length of the longest prefix of s none of whose characters is in S.
RECURSIVE PrefixLenNot(_, _)
PrefixLenNot(s, S) ==
    IF s = <<>> \/ Head(s) \in S THEN 0 ELSE 1 + PrefixLenNot(Tail(s), S)

\* alpha1: one or more ASCII letters.
alpha1(s) ==
    LET n == PrefixLen(s, Letters)
    IN  IF n = 0 THEN Err(s, "Alpha") ELSE Ok(Drop(s, n), Take(s, n))

\* space1: one or more spaces or tabs.
space1(s) ==
    LET n == PrefixLen(s, {SP, TAB})
    IN  IF n = 0 THEN Err(s, "Space") ELSE Ok(Drop(s, n), Take(s, n))

\* line_ending: "\n" or "\r\n".
line_ending(s) ==
    IF StartsWith(s, <<LF>>) THEN Ok(Drop(s, 1), <<LF>>)
    ELSE IF StartsWith(s, <<CR, LF>>) THEN Ok(Drop(s, 2), <<CR, LF>>)
    ELSE Err(s, "CrLf")

\* not_line_ending: everything before the first '\r' or '\n'; an error
\* when that character is a '\r' that "\r\n" does not follow from.
not_line_ending(s) ==
    LET n == PrefixLenNot(s, {CR, LF})
    IN  IF n = Len(s) THEN Ok(<<>>, s)
        ELSE IF s[n + 1] = CR /\ ~StartsWith(Drop(s, n), <<CR, LF>>)
             THEN Err(s, "Tag")
        ELSE Ok(Drop(s, n), Take(s, n))

\* none_of(list): one character that is not in list.
none_of(list, s) ==
    IF s # <<>> /\ Head(s) \notin list
    THEN Ok(Tail(s), Head(s))
    ELSE Err(s, "NoneOf")

\* one_of(list): one character of list.
one_of(list, s) ==
    IF s # <<>> /\ Head(s) \in list
    THEN Ok(Tail(s), Head(s))
    ELSE Err(s, "OneOf")

\* preceded(first, second), given the result of first on s and the result
\* of second on what first left: the output of second, or the first error.
preceded(first, second) == IF first.ok THEN second ELSE first

\* alt((a, b)): a, and b when a fails.
alt(a, b) == IF a.ok THEN a ELSE b

\* map(p, f) for a token built from the output by f.
map(p, kind, payload) == IF p.ok THEN Ok(p.rest, Tok(kind, payload)) ELSE p

----------------------------------------------------------------------------
(* The rules of the lexer *)

\* lex_command with the backslash followed by no letter accepted.
lex_command_alpha0(s) ==
    LET c == char(BS, s)
        n == PrefixLen(c.rest, Letters)
    IN  IF c.ok
        THEN Ok(Drop(c.rest, n), Tok("Command", Take(c.rest, n)))
        ELSE c

\* lex_command taking one letter, not the run of letters.
lex_command_one_letter(s) ==
    LET c == char(BS, s)
    IN  IF c.ok /\ c.rest # <<>> /\ Head(c.rest) \in Letters
        THEN Ok(Tail(c.rest), Tok("Command", <<Head(c.rest)>>))
        ELSE IF c.ok THEN Err(c.rest, "Alpha") ELSE c

\* map(preceded(char('\\'), alpha1), Token::Command)
lex_command(s) ==
    LET c == char(BS, s)
        a == preceded(c, alpha1(c.rest))
    IN  map(a, "Command", a.out)

\* lex_comment with the '%' kept in the payload.
lex_comment_keeps_percent(s) ==
    LET c == char("%", s)
        a == preceded(c, not_line_ending(c.rest))
    IN  map(a, "Comment", <<"%">> \o a.out)

\* map(preceded(char('%'), not_line_ending), Token::Comment)
lex_comment(s) ==
    LET c == char("%", s)
        a == preceded(c, not_line_ending(c.rest))
    IN  map(a, "Comment", a.out)

\* lex_math with "$" tried before "$$".
lex_math_dollar_first(s) ==
    alt(map(tag(<<BS, "[">>, s), "BDisplayMath", <<>>),
    alt(map(tag(<<BS, "]">>, s), "EDisplayMath", <<>>),
    alt(map(tag(<<"$">>, s), "InlineMath", <<>>),
        map(tag(<<"$", "$">>, s), "TDisplayMath", <<>>))))

\* alt of the tags \[ \] $$ $, in this order.
lex_math(s) ==
    alt(map(tag(<<BS, "[">>, s), "BDisplayMath", <<>>),
    alt(map(tag(<<BS, "]">>, s), "EDisplayMath", <<>>),
    alt(map(tag(<<"$", "$">>, s), "TDisplayMath", <<>>),
        map(tag(<<"$">>, s), "InlineMath", <<>>))))

\* map(tag(r"\\"), |_| Token::Endline)
lex_endline(s) == map(tag(<<BS, BS>>, s), "Endline", <<>>)

\* map(space1, Token::Whitespace)
lex_whitespace(s) ==
    LET w == space1(s)
    IN  map(w, "Whitespace", w.out)

\* map(line_ending, |_| Token::Newline)
lex_newline(s) == map(line_ending(s), "Newline", <<>>)

\* alt of the characters { } [ ], in this order.
lex_delimiter(s) ==
    alt(map(char("{", s), "LBrace", <<>>),
    alt(map(char("}", s), "RBrace", <<>>),
    alt(map(char("[", s), "LBracket", <<>>),
        map(char("]", s), "RBracket", <<>>))))

\* text_unit with the tab missing from the list of none_of.
text_unit_takes_tab(s) ==
    LET c == char(BS, s)
    IN  alt(none_of(TextStop \ {TAB}, s),
            preceded(c, one_of(Escapable, c.rest)))

\* One element of a text run:
\* alt((none_of("\\%{}$ \t\n"), preceded(char('\\'), one_of("%{}$&,;! "))))
text_unit(s) ==
    LET c == char(BS, s)
    IN  alt(none_of(TextStop, s),
            preceded(c, one_of(Escapable, c.rest)))

\* The loop of many1 after its first element: what is left of s when
\* text_unit fails.
RECURSIVE text_rest(_)
text_rest(s) ==
    LET u == text_unit(s)
    IN  IF u.ok THEN text_rest(u.rest) ELSE s

\* map(recognize(many1(text_unit)), Token::Text): many1 fails with the
\* error of its first element, recognize gives the part of s consumed.
lex_text(s) ==
    LET u == text_unit(s)
        r == text_rest(u.rest)
    IN  IF u.ok THEN Ok(r, Tok("Text", Take(s, Len(s) - Len(r)))) ELSE u

\* alt of the eight rules, in this order.
lex_token(s) ==
    alt(lex_command(s),
    alt(lex_comment(s),
    alt(lex_endline(s),
    alt(lex_math(s),
    alt(lex_whitespace(s),
    alt(lex_newline(s),
    alt(lex_delimiter(s),
        lex_text(s))))))))

----------------------------------------------------------------------------
(* lex_tokens = many0(lex_token) *)

VARIABLES
    input,   \* the &str lex_tokens is called with
    i,       \* many0: the input that is left
    acc,     \* many0: the tokens pushed so far
    spans,   \* history: the offsets [start, end) of the match of each token
    result   \* "running", or what lex_tokens returned: "Ok" or "Err"

vars == <<input, i, acc, spans, result>>

\* Offset in input of the suffix s.
Offset(s) == Len(input) - Len(s)

Init ==
    /\ input \in Inputs
    /\ i = input
    /\ acc = <<>>
    /\ spans = <<>>
    /\ result = "running"

\* Many0Push with a Whitespace match skipped: not pushed.
Many0Push_skips_whitespace ==
    /\ result = "running"
    /\ lex_token(i).ok
    /\ LET r == lex_token(i)
       IN  IF Len(r.rest) = Len(i)
           THEN /\ result' = "Err"
                /\ UNCHANGED <<i, acc, spans>>
           ELSE IF r.out.kind = "Whitespace"
           THEN /\ i' = r.rest
                /\ UNCHANGED <<acc, spans, result>>
           ELSE /\ i' = r.rest
                /\ acc' = Append(acc, r.out)
                /\ spans' = Append(spans,
                                   [start |-> Offset(i), end |-> Offset(r.rest)])
                /\ UNCHANGED result
    /\ UNCHANGED input

\* One turn of the loop of many0 on which lex_token succeeds: the token is
\* pushed and the loop goes on from the rest, unless the match consumed
\* nothing (the infinite loop check), which makes many0 return an error.
Many0Push ==
    /\ result = "running"
    /\ lex_token(i).ok
    /\ LET r == lex_token(i)
       IN  IF Len(r.rest) = Len(i)
           THEN /\ result' = "Err"
                /\ UNCHANGED <<i, acc, spans>>
           ELSE /\ i' = r.rest
                /\ acc' = Append(acc, r.out)
                /\ spans' = Append(spans,
                                   [start |-> Offset(i), end |-> Offset(r.rest)])
                /\ UNCHANGED result
    /\ UNCHANGED input

\* Many0Return as many1 returns: an error when no token was pushed.
Many0Return_many1 ==
    /\ result = "running"
    /\ ~lex_token(i).ok
    /\ result' = IF acc = <<>> THEN "Err" ELSE "Ok"
    /\ UNCHANGED <<input, i, acc, spans>>

\* The turn on which lex_token fails: many0 returns Ok((i, acc)).
Many0Return ==
    /\ result = "running"
    /\ ~lex_token(i).ok
    /\ result' = "Ok"
    /\ UNCHANGED <<input, i, acc, spans>>

Next == Many0Push \/ Many0Return

Spec == Init /\ [][Next]_vars

----------------------------------------------------------------------------
(* Vocabulary of the properties *)

\* The part of input the match of token k covers.
SpanText(k) == SubSeq(input, spans[k].start + 1, spans[k].end)

\* The offset the scan has reached.
Consumed == Offset(i)

\* The source text of a token without payload, Newline apart.
Literal(kind) ==
    CASE kind = "Endline" -> <<BS, BS>>
      [] kind = "BDisplayMath" -> <<BS, "[">>
      [] kind = "EDisplayMath" -> <<BS, "]">>
      [] kind = "TDisplayMath" -> <<"$", "$">>
      [] kind = "InlineMath" -> <<"$">>
      [] kind = "LBrace" -> <<"{">>
      [] kind = "RBrace" -> <<"}">>
      [] kind = "LBracket" -> <<"[">>
      [] kind = "RBracket" -> <<"]">>

\* The source text of token t, a Newline contributing nl.
SourceOf(t, nl) ==
    CASE t.kind = "Command" -> <<BS>> \o t.payload
      [] t.kind = "Comment" -> <<"%">> \o t.payload
      [] t.kind \in {"Text", "Whitespace"} -> t.payload
      [] t.kind = "Newline" -> nl
      [] OTHER -> Literal(t.kind)

\* The source texts of the tokens toks in order, every Newline
\* contributing the one literal nl.
RECURSIVE Concat(_, _)
Concat(toks, nl) ==
    IF toks = <<>> THEN <<>>
    ELSE SourceOf(Head(toks), nl) \o Concat(Tail(toks), nl)

\* The source texts of the tokens k..Len(acc) in order, every Newline
\* contributing the line terminator it matched.
RECURSIVE ConcatMatched(_)
ConcatMatched(k) ==
    IF k > Len(acc) THEN <<>>
    ELSE SourceOf(acc[k], SpanText(k)) \o ConcatMatched(k + 1)

FullyConsumed == result = "Ok" /\ i = <<>>

----------------------------------------------------------------------------
(* C1: round trip *)

\* C1, as stated: when lex_tokens leaves an empty remainder, the source
\* texts of the tokens concatenate to the input, every Newline token
\* contributing one fixed line terminator.  The terminator is "\n" or
\* "\r\n"; the statement asks here only that one of the two suits the
\* input at hand, which is less than one literal suiting every input.
C1_RoundTripFixedNewline ==
    FullyConsumed =>
        \E nl \in {<<LF>>, <<CR, LF>>} : Concat(acc, nl) = input

\* C1, amended: when lex_tokens leaves an empty remainder, the source
\* texts of the tokens concatenate to the input, every Newline token
\* contributing the line terminator it matched ("\n" or "\r\n"); with the
\* fixed literal "\n" the input is reproduced whenever no Newline token
\* matched "\r\n".
C1_RoundTripMatchedNewline ==
    FullyConsumed =>
        /\ ConcatMatched(1) = input
        /\ (\A k \in 1..Len(acc) :
                acc[k].kind = "Newline" => SpanText(k) = <<LF>>)
           => Concat(acc, <<LF>>) = input

\* A whole input is consumed that holds a "\r\n" Newline and a token with
\* a payload behind a restored character.
C1_Witness ==
    /\ FullyConsumed
    /\ \E k, j \in 1..Len(acc) :
        /\ acc[k].kind = "Newline"
        /\ SpanText(k) = <<CR, LF>>
        /\ acc[j].kind \in {"Command", "Comment"}
        /\ acc[j].payload # <<>>

----------------------------------------------------------------------------
(* C2: payloads *)

\* The payload of token k is the range of input its match covers, less
\* the leading '\' of a Command and the leading '%' of a Comment.
PayloadInPlace(k) ==
    acc[k].payload =
        SubSeq(input,
               spans[k].start + 1
                   + (IF acc[k].kind \in {"Command", "Comment"} THEN 1 ELSE 0),
               spans[k].end)

\* C2, as stated: every Command, Comment, Text and Whitespace token has a
\* payload that is not empty and is a contiguous range of the input.
C2_PayloadNonEmpty ==
    \A k \in 1..Len(acc) :
        acc[k].kind \in PayloadKinds =>
            acc[k].payload # <<>> /\ PayloadInPlace(k)

\* C2, amended: every Command, Text and Whitespace token has a payload that
\* is not empty; the payload of a Comment is empty when a line terminator
\* or the end of the input follows the '%' at once; every payload is a
\* contiguous range of the input.
C2_PayloadSubrange ==
    \A k \in 1..Len(acc) :
        acc[k].kind \in PayloadKinds =>
            /\ PayloadInPlace(k)
            /\ acc[k].kind # "Comment" => acc[k].payload # <<>>
            /\ (acc[k].kind = "Comment" /\ acc[k].payload = <<>>) =>
                   \/ spans[k].end = Len(input)
                   \/ input[spans[k].end + 1] \in {CR, LF}

\* A Comment with an empty payload, in front of a token with a payload.
C2_Witness ==
    \E k, j \in 1..Len(acc) :
        /\ acc[k] = Tok("Comment", <<>>)
        /\ k < j
        /\ acc[j].kind \in {"Command", "Text", "Whitespace"}

----------------------------------------------------------------------------
(* C3: the matches tile the consumed prefix *)

\* The range of token k holds the source text of the token.
RangeIsOfToken(k) ==
    IF acc[k].kind = "Newline"
    THEN SpanText(k) \in {<<LF>>, <<CR, LF>>}
    ELSE SpanText(k) = SourceOf(acc[k], <<>>)

\* C3: the first token starts at offset 0, every token consumes at least
\* one character, every token starts where the one before it ends, each
\* range holds the text of its token, and the remainder is the suffix of
\* the input that starts where the last token ends.
C3_SpansTile ==
    /\ Len(spans) = Len(acc)
    /\ \A k \in 1..Len(acc) :
        /\ spans[k].start = (IF k = 1 THEN 0 ELSE spans[k - 1].end)
        /\ spans[k].end > spans[k].start
        /\ spans[k].end <= Len(input)
        /\ RangeIsOfToken(k)
    /\ i = Drop(input, IF acc = <<>> THEN 0 ELSE spans[Len(acc)].end)

\* lex_tokens has returned two tokens or more, one of them of two
\* characters or more, and a remainder.
C3_Witness ==
    /\ result = "Ok"
    /\ Len(acc) >= 2
    /\ i # <<>>
    /\ \E k \in 1..Len(acc) : spans[k].end - spans[k].start >= 2

----------------------------------------------------------------------------
(* C4: lex_tokens returns Ok and stops where no rule matches *)

\* What is left of input at offset p.
From(p) == Drop(input, p)

\* s starts with a backslash that is the last character or is followed by
\* a character that is no letter, no '\', '[' or ']' and not escapable.
LoneBackslash(s) ==
    /\ s # <<>>
    /\ Head(s) = BS
    /\ Len(s) = 1 \/ s[2] \notin (Letters \cup {BS, "[", "]"} \cup Escapable)

\* C4: lex_tokens never returns an error and ends within Len(input) turns;
\* at the start of every token kept a rule matches and the token is the
\* one lex_token gives there; it returns at the first scan position where
\* no rule matches, with the rest of the input from that position, which
\* is empty exactly when that position is the end of the input, so not
\* empty exactly when no rule matches at a position in the input; a scan
\* position at a lone backslash is such a position, and the remainder
\* starts with that backslash.
C4_OkStopsAtFirstFailure ==
    /\ result # "Err"
    /\ Len(acc) <= Consumed
    /\ \A k \in 1..Len(acc) :
        LET r == lex_token(From(spans[k].start))
        IN  /\ r.ok
            /\ r.out = acc[k]
            /\ ~LoneBackslash(From(spans[k].start))
    /\ result = "Ok" =>
        /\ ~lex_token(i).ok
        /\ i = From(Consumed)
        /\ i # <<>> <=> Consumed < Len(input)
        /\ i # <<>> <=> (Consumed < Len(input) /\ ~lex_token(From(Consumed)).ok)
    /\ (result = "running" /\ LoneBackslash(i)) => ~lex_token(i).ok
    /\ (result = "running" /\ i = <<>>) => ~lex_token(i).ok

\* lex_tokens has returned tokens and a remainder that starts with a lone
\* backslash.
C4_Witness ==
    /\ result = "Ok"
    /\ acc # <<>>
    /\ LoneBackslash(i)
    /\ Len(i) >= 2

----------------------------------------------------------------------------
(* C5: comments *)

\* Number of characters of s before its first line terminator ("\n" or
\* "\r\n"), or Len(s) when it has none.
RECURSIVE ToTerminator(_)
ToTerminator(s) ==
    IF s = <<>> \/ StartsWith(s, <<LF>>) \/ StartsWith(s, <<CR, LF>>)
    THEN 0
    ELSE 1 + ToTerminator(Tail(s))

\* C5: the scan never stops at a '%'; a token that starts at a '%' is a
\* Comment whose payload is the characters after the '%' up to the next
\* line terminator or the end of the input, and the scan goes on at that
\* terminator.
C5_PercentGivesComment ==
    /\ result = "Ok" => (i = <<>> \/ Head(i) # "%")
    /\ \A k \in 1..Len(acc) :
        input[spans[k].start + 1] = "%" =>
            LET after == From(spans[k].start + 1)
                n == ToTerminator(after)
            IN  /\ acc[k] = Tok("Comment", Take(after, n))
                /\ spans[k].end = spans[k].start + 1 + n

----------------------------------------------------------------------------
(* C6: line terminators *)

\* Width of the line terminator of input at offset p: 2 for "\r\n", 1 for
\* a "\n" that no '\r' precedes, 0 when none starts there.
TerminatorWidth(p) ==
    IF StartsWith(From(p), <<CR, LF>>) THEN 2
    ELSE IF input[p + 1] = LF /\ (p = 0 \/ input[p] # CR) THEN 1
    ELSE 0

\* C6: every line terminator of the consumed part is the range of exactly
\* one Newline token; no Text, Whitespace or Comment token holds the '\r'
\* of a "\r\n"; a Whitespace payload holds spaces and tabs only.
C6_TerminatorIsOneNewline ==
    /\ \A p \in 0..(Consumed - 1) :
        (TerminatorWidth(p) > 0 /\ p + TerminatorWidth(p) <= Consumed) =>
            Cardinality({k \in 1..Len(acc) :
                            /\ acc[k].kind = "Newline"
                            /\ spans[k].start = p
                            /\ spans[k].end = p + TerminatorWidth(p)}) = 1
    /\ \A k \in 1..Len(acc) :
        acc[k].kind \in {"Text", "Whitespace", "Comment"} =>
            \A p \in spans[k].start..(spans[k].end - 1) :
                TerminatorWidth(p) # 2
    /\ \A k \in 1..Len(acc) :
        acc[k].kind = "Whitespace" =>
            \A q \in 1..Len(acc[k].payload) : acc[k].payload[q] \in {SP, TAB}

----------------------------------------------------------------------------
(* C7: "$$" before "$" *)

\* C7: a token that starts at two '$' is one TDisplayMath for both, and a
\* rule matches wherever the scan stands at two '$'; an InlineMath token
\* is never followed at once by an InlineMath or a TDisplayMath token;
\* "$$1+2$$" gives [TDisplayMath, Text("1+2"), TDisplayMath].
C7_DisplayBeforeInline ==
    /\ \A k \in 1..Len(acc) :
        StartsWith(From(spans[k].start), <<"$", "$">>) =>
            /\ acc[k] = Tok("TDisplayMath", <<>>)
            /\ spans[k].end = spans[k].start + 2
    /\ StartsWith(i, <<"$", "$">>) => lex_token(i).ok
    /\ \A k \in 1..(Len(acc) - 1) :
        acc[k].kind = "InlineMath" =>
            acc[k + 1].kind \notin {"InlineMath", "TDisplayMath"}
    /\ (result = "Ok" /\ input = T_tdisplay) =>
        /\ acc = <<Tok("TDisplayMath", <<>>), Tok("Text", <<"1", "+", "2">>),
                   Tok("TDisplayMath", <<>>)>>
        /\ i = <<>>

\* Three '$' in a row were scanned: a TDisplayMath, then an InlineMath.
C7_Witness ==
    \E k \in 1..(Len(acc) - 1) :
        /\ acc[k].kind = "TDisplayMath"
        /\ acc[k + 1].kind = "InlineMath"
        /\ spans[k + 1].start = spans[k].start + 2

----------------------------------------------------------------------------
(* C8: commands *)

\* s is "\\" followed by one letter or more and nothing else.
EndlineThenLetters(s) ==
    /\ Len(s) >= 3
    /\ s[1] = BS
    /\ s[2] = BS
    /\ \A q \in 3..Len(s) : s[q] \in Letters

\* The Command rule: on what is left of the input at any scan position,
\* lex_command succeeds exactly when a backslash and a letter come first;
\* it then gives Command with the longest run of letters after the
\* backslash and leaves what follows the run, which starts with no letter;
\* when a backslash is followed by no letter it fails and the backslash is
\* still there for the rules after it, which give Endline, BDisplayMath,
\* EDisplayMath or a Text that starts with the backslash, or fail;
\* lex_command fails on "\\cmd" where alpha1 does, at "\cmd".
CommandRule ==
    /\ LET c == lex_command(i)
           n == Len(c.out.payload)
           t == lex_token(i)
       IN  /\ c.ok <=> (Len(i) >= 2 /\ i[1] = BS /\ i[2] \in Letters)
           /\ c.ok =>
               /\ n >= 1
               /\ c.out = Tok("Command", SubSeq(i, 2, n + 1))
               /\ \A q \in 2..(n + 1) : i[q] \in Letters
               /\ c.rest = Drop(i, n + 1)
               /\ Len(i) > n + 1 => i[n + 2] \notin Letters
           /\ (i # <<>> /\ Head(i) = BS /\ ~c.ok) =>
               /\ c.code = "Alpha"
               /\ c.rest = Tail(i)
               /\ t.ok =>
                   /\ t.out.kind
                        \in {"Endline", "BDisplayMath", "EDisplayMath", "Text"}
                   /\ Len(t.rest) <= Len(i) - 2
                   /\ t.out.kind = "Text" => Head(t.out.payload) = BS
    /\ \A k \in 1..Len(acc) :
        acc[k].kind = "Command" =>
            /\ acc[k] = lex_command(From(spans[k].start)).out
            /\ spans[k].end < Len(input) =>
                   input[spans[k].end + 1] \notin Letters
    /\ lex_command(T_endline_cmd) = Err(Tail(T_endline_cmd), "Alpha")

\* C8, as stated: the Command rule, and lex_tokens gives [Endline,
\* Command(letters)] and an empty remainder on "\\" followed by one letter
\* or more.
C8_EndlineThenCommand ==
    /\ CommandRule
    /\ (result = "Ok" /\ EndlineThenLetters(input)) =>
        /\ acc = <<Tok("Endline", <<>>), Tok("Command", Drop(input, 2))>>
        /\ i = <<>>

\* C8, amended: the Command rule, and lex_tokens gives [Endline,
\* Text(letters)] and an empty remainder on "\\" followed by one letter or
\* more: Endline takes both backslashes and none is left for a Command.
C8_EndlineThenText ==
    /\ CommandRule
    /\ (result = "Ok" /\ EndlineThenLetters(input)) =>
        /\ acc = <<Tok("Endline", <<>>), Tok("Text", Drop(input, 2))>>
        /\ i = <<>>

\* lex_tokens has returned on "\\cmd".
C8_Witness ==
    /\ result = "Ok"
    /\ input = T_endline_cmd
    /\ Len(acc) = 2
    /\ acc[2] = Tok("Text", <<"c", "m", "d">>)

----------------------------------------------------------------------------
(* C9: brackets *)

\* C9: no Text payload holds a '[' or a ']', and every token whose range
\* holds a '[' or a ']' is a BDisplayMath, an EDisplayMath or a Comment, or
\* is the LBracket or the RBracket of that one character.
C9_BracketIsOwnToken ==
    \A k \in 1..Len(acc) :
        /\ acc[k].kind = "Text" =>
            \A q \in 1..Len(acc[k].payload) :
                acc[k].payload[q] \notin {"[", "]"}
        /\ \A p \in (spans[k].start + 1)..spans[k].end :
            input[p] \in {"[", "]"} =>
                \/ acc[k].kind \in {"BDisplayMath", "EDisplayMath", "Comment"}
                \/ /\ spans[k].end = spans[k].start + 1
                   /\ acc[k].kind =
                          (IF input[p] = "[" THEN "LBracket" ELSE "RBracket")

----------------------------------------------------------------------------
(* C10: escapes in Text *)

\* The structural set and the escapable set, as C10 lists them.
Structural == {BS, "%", "{", "}", "$", SP, TAB, LF}
Escaped == {"%", "{", "}", "$", "&", ",", ";", "!", SP}

\* p splits into units, each one character outside Structural or a
\* backslash followed by one character of Escaped.
RECURSIVE IsUnits(_)
IsUnits(p) ==
    \/ p = <<>>
    \/ Head(p) \notin Structural /\ IsUnits(Tail(p))
    \/ Len(p) >= 2 /\ p[1] = BS /\ p[2] \in Escaped /\ IsUnits(Drop(p, 2))

\* A text run that ends in front of s cannot go on.
RunEnds(s) ==
    \/ s = <<>>
    \/ Head(s) \in Structural \ {BS}
    \/ Head(s) = BS /\ (Len(s) = 1 \/ s[2] \notin Escaped)

\* The payload p of a Text token is made of units, is not empty, holds
\* '%' '{' '}' '$' and the space only right after a backslash, and no tab
\* and no "\n".
TextPayloadOk(p) ==
    /\ p # <<>>
    /\ IsUnits(p)
    /\ \A q \in 1..Len(p) :
        /\ p[q] \notin {TAB, LF}
        /\ p[q] \in {"%", "{", "}", "$", SP} => (q > 1 /\ p[q - 1] = BS)

\* C10: the Text payloads of lex_text, on what is left at any scan
\* position, and of lex_tokens are made of units as above; the run is the
\* longest one, it ends at the end of the input, at an unescaped
\* structural character or at a backslash that no escapable character
\* follows; lex_text fails only where no unit starts; two Text tokens are
\* never next to each other.
C10_TextEscapes ==
    /\ LET t == lex_text(i)
       IN  /\ t.ok =>
               /\ t.out.kind = "Text"
               /\ TextPayloadOk(t.out.payload)
               /\ t.out.payload \o t.rest = i
               /\ RunEnds(t.rest)
           /\ ~t.ok => RunEnds(i)
    /\ \A k \in 1..Len(acc) :
        acc[k].kind = "Text" =>
            /\ TextPayloadOk(acc[k].payload)
            /\ RunEnds(From(spans[k].end))
            /\ k < Len(acc) => acc[k + 1].kind # "Text"
    /\ (result = "Ok" /\ input = T_escapes) =>
        acc = <<Tok("Text", Take(T_escapes, 8)), Tok("BDisplayMath", <<>>)>>

\* A Text token with an escape in it, a token after it, and lex_tokens has
\* returned.
C10_Witness ==
    /\ result = "Ok"
    /\ \E k \in 1..(Len(acc) - 1) :
        /\ acc[k].kind = "Text"
        /\ Len(acc[k].payload) >= 3
        /\ \E q \in 1..Len(acc[k].payload) : acc[k].payload[q] = BS

====
